---- MODULE Spec2Model ----
(***************************************************************************)
(* Clip lifecycle and reliable upload of the sleep-mode node agent:        *)
(* SleepModeClient / SleepUploader (pi-agent/sleep_mode.py) driven by      *)
(* HomeMicAgent.run (pi-agent/agent_updated.py).                           *)
(*                                                                         *)
(* The storage directory is three sets of clip identities: the clips whose *)
(* X.wav exists, whose X.recording exists and whose X.uploaded exists.     *)
(* Three threads of one agent process act on it: the recorder (capturer),  *)
(* the daemon upload thread and the agent's main thread (status count,     *)
(* cleanup, stop).  The process can die at any point and be started again; *)
(* only the directory and the collector survive that.                      *)
(***************************************************************************)
EXTENDS Integers, FiniteSets, Sequences, TLC

\* ---------------------------------------------------------------- bounds
MaxClips == 2          \* clips in the concurrent specifications
MaxRuns == 2           \* agent processes started over one behaviour
MaxSessionId == 2      \* distinct session ids the collector hands out
MaxK == 2              \* failed attempts per clip before the collector accepts
CountClips == 5        \* clip names in the directories get_pending_count is run on
MaxKeepDays == 2       \* keep_days values and clip ages cleanup_uploaded is run on
MaxStops == 2          \* calls of stop() in one run of the agent
MaxStarts == 2         \* calls of start() on one uploader
MaxApiClips == 1       \* left-over clips of the uploader driven through its interface
MaxChunks == 3         \* chunks AudioTransmitter.send_chunk is called for
MaxSamples == 2        \* 16-bit samples in an input of the level functions
MaxCount == 3          \* clips_uploaded up to which a marker creation fails

Clips == 1..MaxClips
SessionIds == 1..MaxSessionId
None == 0              \* session_id: Optional[str] = None

VARIABLES
    dir_exists,      \* storage_dir.exists()
    wav,             \* clips whose X.wav exists in storage_dir
    recording,       \* clips whose X.recording sidecar exists
    uploaded,        \* clips whose X.uploaded sidecar exists
    age,             \* age of each clip in days (a function on the clip names)
    nextClip,        \* recorder: number of clips started so far
    recPc,           \* recorder thread: "off", "idle" or "rec" (clip nextClip)
    is_running,      \* SleepUploader.is_running
    session_id,      \* SleepModeClient.session_id
    clips_uploaded,  \* SleepUploader.clips_uploaded
    loopPc,          \* position of the upload thread in _upload_loop
    wav_files,       \* _upload_loop: entries of the glob not yet iterated
    wav_file,        \* _upload_loop: the clip of the current iteration, <<c>>
    result,          \* _upload_loop: what upload_audio returned for it, <<b>>
    mainPc,          \* position of the agent's main thread
    keep_days,       \* cleanup_uploaded: its parameter
    markers,         \* cleanup_uploaded: markers of the glob not yet iterated
    uploaded_marker, \* cleanup_uploaded: marker of the current iteration, <<c>>
    snapshot,        \* cleanup_uploaded: the markers its glob returned
    pending,         \* get_pending_count: the value returned
    runs,            \* agent processes started so far
    failFirst,       \* collector: attempts per clip it refuses before it accepts
    refused,         \* collector: attempts per clip it has refused so far
    delivered,       \* collector: clips it answered 200 for at least once
    duplicated,      \* collector: clips it answered 200 for more than once
    marked,          \* clips whose .uploaded marker was ever created
    remarked,        \* clips whose .uploaded marker was created a second time
    notified,        \* clips on_upload_complete was invoked for in this run
    form_session,    \* upload_audio: 'sessionId' field of the request, <<>> for ''
    resp_session,    \* upload_audio: result.get('sessionId') of the last 200
    adopted,         \* session id this run took from an upload response
    start_status,    \* start_session: "none" before the call, then "200" or "fail"
    started,         \* what start_session returned, <<>> before the call
    clip_session,    \* session_id when the recorder opened each clip
    starts,          \* calls of start() in this run
    stops,           \* calls of stop() in this run
    end_sent,        \* the stop() in progress has sent an end-session request
    end_status,      \* collector's answer to the last end-session request
    end_ret,         \* what end_session returned, <<>> before the call
    open,            \* collector: sessions started and not ended
    ended,           \* collector: sessions ended
    tx_session_id,   \* AudioTransmitter.session_id
    tx_chunks,       \* AudioTransmitter: calls of send_chunk so far
    tx_buffer,       \* AudioTransmitter: chunks whose file is in BUFFER_DIR
    tx_sent,         \* send_chunk: 'sessionId' field of its request, <<>> for ''
    tx_resp,         \* send_chunk: body of the last 200, <<>> without 'sessionId'
    tx_adopted,      \* first session id the transmitter took from a response
    txPc,            \* audio_capture.main: "send" or "retry"
    corrupt,         \* clips whose X.wav is not a readable WAV file
    audio_level,     \* _upload_loop: the level computed for the current clip, <<l>>
    cleanup_error,   \* an unlink of cleanup_uploaded has raised in this run
    stale,           \* locals of a loop thread that outlived stop(), <<>> if none
    level_input,     \* the file or block of samples handed to a level function
    level_output     \* what the level functions returned for it

fsVars == <<dir_exists, wav, recording, uploaded, age>>
recVars == <<nextClip, recPc>>
upVars == <<is_running, session_id, clips_uploaded>>
loopVars == <<loopPc, wav_files, wav_file, result>>
cleanVars == <<keep_days, markers, uploaded_marker, snapshot>>
collVars == <<failFirst, refused>>
ghostVars == <<delivered, duplicated, marked, remarked, notified>>
sessVars == <<form_session, resp_session, adopted, start_status, started,
              clip_session>>
stopVars == <<starts, stops, end_sent, end_status, end_ret>>
srvVars == <<open, ended>>
txVars == <<tx_session_id, tx_chunks, tx_buffer, tx_sent, tx_resp, tx_adopted,
            txPc>>
auxVars == <<corrupt, audio_level, cleanup_error, stale, level_input,
             level_output>>
vars == <<dir_exists, wav, recording, uploaded, age, nextClip, recPc, is_running,
          session_id, clips_uploaded, loopPc, wav_files, wav_file, result, mainPc,
          keep_days, markers, uploaded_marker, snapshot, pending, runs, failFirst,
          refused, delivered, duplicated, marked, remarked, notified,
          form_session, resp_session, adopted, start_status, started,
          clip_session, starts, stops,
          end_sent, end_status, end_ret, open, ended, tx_session_id, tx_chunks,
          tx_buffer, tx_sent, tx_resp, tx_adopted, txPc, corrupt, audio_level,
          cleanup_error, stale, level_input, level_output>>

\* ---------------------------------------------------------------- queries
\* Mutant of IsRecording: the .recording check is lost.
IsRecordingNever(c) == FALSE

\* wav_file.with_suffix('.recording').exists()
IsRecording(c) == c \in recording

\* Mutant of IsUploaded: the .uploaded check is lost.
IsUploadedNever(c) == FALSE

\* wav_file.with_suffix('.uploaded').exists()
IsUploaded(c) == c \in uploaded

\* storage_dir.glob("*.wav")
GlobWav == wav

\* Mutant of GlobUploaded: the pass walks the clips, not the markers.
GlobUploadedAsWav == wav \cup uploaded

\* storage_dir.glob("*.uploaded")
GlobUploaded == uploaded

\* A collector that refuses no upload.
NeverRefuses ==
    /\ failFirst = [c \in Clips |-> 0]
    /\ refused = [c \in Clips |-> 0]

\* ---------------------------------------------------------- level meter
\* Samples are written in units of 2048 (the full scale 32768 is 16 units).
\* sum(s ** 2 for s in sample), in squared units
RECURSIVE SumSquares(_)
SumSquares(shorts) ==
    IF shorts = <<>> THEN 0
    ELSE Head(shorts) * Head(shorts) + SumSquares(Tail(shorts))

\* rms = (sum_squares / count) ** 0.5; min(100, (rms / 32768) * 100 * 5),
\* rounded down to a whole number: the largest l up to 100 with
\* l <= rms * 500 / 32768, that is (in units of 2048)
\* l * l * count * (32768 / 2048) ^ 2 <= (100 * 5) ^ 2 * sum_squares.
Normalize(sum_squares, count) ==
    CHOOSE l \in 0..100 :
        /\ 256 * l * l * count <= 250000 * sum_squares
        /\ l = 100 \/ 256 * (l + 1) * (l + 1) * count > 250000 * sum_squares

\* sample = shorts[::100] if len(shorts) > 1000 else shorts
Sampled(shorts) ==
    IF Len(shorts) > 1000
      THEN [i \in 1..(((Len(shorts) - 1) \div 100) + 1) |->
               shorts[(i - 1) * 100 + 1]]
      ELSE shorts

\* What a level function hands back: a value, or an exception.
Returns(l) == [raised |-> FALSE, value |-> l]
Raises == [raised |-> TRUE, value |-> 0]

\* SleepUploader._calculate_audio_level for a file: wave.open of a file that
\* is no WAV file raises; frames of another width than 2 are not looked at;
\* struct.unpack raises on a byte left over; no sample at all divides by
\* zero.  Every exception is caught and 0.0 is returned.
UploaderCalculateAudioLevel(f) ==
    IF ~f.readable THEN Returns(0)
    ELSE IF f.sampwidth # 2 THEN Returns(0)
    ELSE IF f.odd THEN Returns(0)
    ELSE IF Len(Sampled(f.samples)) = 0 THEN Returns(0)
    ELSE Returns(Normalize(SumSquares(Sampled(f.samples)),
                           Len(Sampled(f.samples))))

\* AudioCapture.calculate_audio_level for a block of bytes: struct.unpack
\* raises on a byte left over, and the division raises for no sample; nothing
\* catches either.
CaptureCalculateAudioLevel(d) ==
    IF d.odd THEN Raises
    ELSE IF Len(d.samples) = 0 THEN Raises
    ELSE Returns(Normalize(SumSquares(d.samples), Len(d.samples)))

\* No level function has been called.
NoLevel == [fn |-> "none", out |-> Returns(0)]

\* The file of a clip the recorder wrote in full: 16-bit frames.
SoundFile == [readable |-> TRUE, sampwidth |-> 2, samples |-> <<1, -1>>,
              odd |-> FALSE]

\* A file that is no WAV file (truncated header, other content).
CorruptFile == [readable |-> FALSE, sampwidth |-> 2, samples |-> <<>>,
                odd |-> FALSE]

\* The content of X.wav
FileOf(c) == IF c \in corrupt THEN CorruptFile ELSE SoundFile

\* No fault has happened, no thread was left behind, no level was asked for.
Undisturbed ==
    /\ corrupt = {}
    /\ cleanup_error = FALSE
    /\ stale = <<>>
    /\ level_input = SoundFile
    /\ level_output = NoLevel

\* AudioTransmitter.__init__, with an empty BUFFER_DIR
TxFresh ==
    /\ tx_session_id = None
    /\ tx_chunks = 0 /\ tx_buffer = {}
    /\ tx_sent = <<>> /\ tx_resp = <<>> /\ tx_adopted = None
    /\ txPc = "send"

\* No thread has started, nothing is in memory.
Fresh ==
    /\ recPc = "off"
    /\ is_running = FALSE /\ session_id = None /\ clips_uploaded = 0
    /\ loopPc = "none" /\ wav_files = {} /\ wav_file = <<>> /\ result = <<>>
    /\ markers = {} /\ uploaded_marker = <<>> /\ snapshot = {}
    /\ pending = 0 /\ runs = 1
    /\ delivered = {} /\ duplicated = {} /\ marked = {} /\ remarked = {}
    /\ notified = {}
    /\ form_session = <<>> /\ resp_session = None /\ adopted = None
    /\ start_status = "none" /\ started = <<>>
    /\ starts = 0 /\ stops = 0 /\ end_sent = FALSE
    /\ end_status = "none" /\ end_ret = <<>>
    /\ audio_level = <<>>

\* A collector that knows no session, and clips of no session.
NoSessions ==
    /\ open = {} /\ ended = {}
    /\ clip_session = [c \in Clips |-> None]

\* A first start of the agent on an empty storage directory.
Init ==
    /\ Fresh
    /\ mainPc = "start"
    /\ nextClip = 0
    /\ keep_days = 0
    /\ dir_exists = TRUE
    /\ wav = {} /\ recording = {} /\ uploaded = {}
    /\ age = [c \in Clips |-> 0]
    /\ NeverRefuses
    /\ NoSessions
    /\ TxFresh
    /\ Undisturbed

\* ------------------------------------------------------------- recorder
\* The recorder opens a clip: its .recording sidecar and its .wav appear.
CapturerBegin ==
    /\ recPc = "idle"
    /\ nextClip < MaxClips
    /\ nextClip' = nextClip + 1
    /\ recPc' = "rec"
    /\ recording' = recording \cup {nextClip + 1}
    /\ wav' = wav \cup {nextClip + 1}
    /\ clip_session' = [clip_session EXCEPT ![nextClip + 1] = session_id]
    /\ UNCHANGED <<dir_exists, uploaded, age, upVars, loopVars, mainPc,
                   cleanVars, pending, runs, collVars, ghostVars,
                   form_session, resp_session, adopted, start_status, started,
                   stopVars, srvVars, txVars, auxVars>>

\* The recorder finalizes the clip: the .recording sidecar is removed.
CapturerFinalize ==
    /\ recPc = "rec"
    /\ recPc' = "idle"
    /\ recording' = recording \ {nextClip}
    /\ UNCHANGED <<dir_exists, wav, uploaded, age, nextClip, upVars, loopVars,
                   mainPc, cleanVars, pending, runs, collVars, ghostVars,
                   sessVars, stopVars, srvVars, txVars, auxVars>>

\* ---------------------------------------------------------- upload thread
\* while self.is_running: wav_files = list(self.storage_dir.glob("*.wav"))
LoopWhile ==
    /\ loopPc = "while"
    /\ IF is_running
         THEN loopPc' = "for" /\ wav_files' = GlobWav
         ELSE loopPc' = "exit" /\ wav_files' = {}
    /\ wav_file' = <<>>
    /\ result' = <<>>
    /\ audio_level' = <<>>
    /\ UNCHANGED <<fsVars, recVars, upVars, mainPc, cleanVars, pending, runs,
                   collVars, ghostVars,
                   sessVars, stopVars, srvVars, txVars, corrupt, cleanup_error,
                   stale, level_input, level_output>>

\* for wav_file in wav_files: if not self.is_running: break; after the last
\* entry (or the break) time.sleep(5) and back to the loop condition.
LoopFor ==
    /\ loopPc = "for"
    /\ IF wav_files = {} \/ ~is_running
         THEN loopPc' = "while" /\ wav_files' = {} /\ wav_file' = <<>>
         ELSE \E c \in wav_files :
                /\ wav_file' = <<c>>
                /\ wav_files' = wav_files \ {c}
                /\ loopPc' = "chk_recording"
    /\ result' = <<>>
    /\ audio_level' = <<>>
    /\ UNCHANGED <<fsVars, recVars, upVars, mainPc, cleanVars, pending, runs,
                   collVars, ghostVars,
                   sessVars, stopVars, srvVars, txVars, corrupt, cleanup_error,
                   stale, level_input, level_output>>

\* if wav_file.with_suffix('.recording').exists(): continue
LoopCheckRecording ==
    /\ loopPc = "chk_recording"
    /\ loopPc' = IF IsRecording(wav_file[1]) THEN "for" ELSE "chk_uploaded"
    /\ UNCHANGED <<fsVars, recVars, upVars, wav_files, wav_file, result, mainPc,
                   cleanVars, pending, runs, collVars, ghostVars,
                   sessVars, stopVars, srvVars, txVars, auxVars>>

\* if wav_file.with_suffix('.uploaded').exists(): continue
\* audio_level = self._calculate_audio_level(wav_file)
LoopCheckUploaded ==
    /\ loopPc = "chk_uploaded"
    /\ IF IsUploaded(wav_file[1])
         THEN loopPc' = "for" /\ audio_level' = audio_level
         ELSE /\ loopPc' = "upload"
              /\ audio_level' =
                    <<UploaderCalculateAudioLevel(FileOf(wav_file[1])).value>>
    /\ UNCHANGED <<fsVars, recVars, upVars, wav_files, wav_file, result, mainPc,
                   cleanVars, pending, runs, collVars, ghostVars,
                   sessVars, stopVars, srvVars, txVars, corrupt, cleanup_error,
                   stale, level_input, level_output>>

\* 'sessionId': self.session_id or ''
SessionField(sid) == IF sid = None THEN <<>> ELSE <<sid>>

\* upload_audio: open(file_path, 'rb'); a missing file raises, which
\* upload_audio catches and turns into False.  With the file open the form
\* of the request is built from the session id of that moment.
UploadAudioOpen ==
    /\ loopPc = "upload"
    /\ IF wav_file[1] \in wav
         THEN /\ loopPc' = "post" /\ result' = result
              /\ form_session' = SessionField(session_id)
         ELSE /\ loopPc' = "for" /\ result' = <<FALSE>>
              /\ form_session' = form_session
    /\ UNCHANGED <<fsVars, recVars, upVars, wav_files, wav_file, mainPc,
                   cleanVars, pending, runs, collVars, ghostVars,
                   resp_session, adopted, start_status, started, clip_session,
                   stopVars, srvVars, txVars, auxVars>>

\* session_id after a 200 whose body carries sessionId sid (None: no such key)
Adopt(sid) == IF session_id = None THEN sid ELSE session_id

\* The sessions the collector has opened so far: ids are handed out in
\* order, none twice.
OpenedIds == {i \in SessionIds : i <= Cardinality(open \cup ended)}

\* The id of the next session the collector opens (no id is left once
\* MaxSessionId sessions were opened).
FreshIds == {i \in SessionIds : i = Cardinality(open \cup ended) + 1}

\* The ids the answer to the upload in flight can carry: a session the
\* collector has opened, or one it opens for an upload that came without
\* session id.
RespIds == OpenedIds \cup (IF form_session = <<>> THEN FreshIds ELSE {})

\* upload_audio: the collector accepts the clip and answers 200; the client
\* adopts the session id of the body if it has none; returns True.
UploadAudioOk ==
    /\ loopPc = "post"
    /\ refused[wav_file[1]] >= failFirst[wav_file[1]]
    /\ \E sid \in RespIds \cup {None} :
          /\ session_id' = Adopt(sid)
          /\ resp_session' = sid
          /\ adopted' = IF session_id = None /\ sid # None THEN sid ELSE adopted
          /\ open' = IF sid \in SessionIds \ (open \cup ended)
                       THEN open \cup {sid} ELSE open
    /\ delivered' = delivered \cup {wav_file[1]}
    /\ duplicated' = duplicated \cup ({wav_file[1]} \cap delivered)
    /\ loopPc' = "mark"
    /\ result' = <<TRUE>>
    /\ UNCHANGED <<fsVars, recVars, is_running, clips_uploaded, wav_files,
                   wav_file, mainPc, cleanVars, pending, runs, collVars, marked,
                   remarked, notified, form_session, start_status, started,
                   clip_session, stopVars, ended, txVars, auxVars>>

\* Mutant of UploadFailed: the clip that failed is given up and removed.
UploadFailedDropsClip ==
    /\ loopPc' = "for"
    /\ result' = <<FALSE>>
    /\ wav' = wav \ {wav_file[1]}
    /\ UNCHANGED <<dir_exists, recording, uploaded, age, recVars, upVars,
                   wav_files, wav_file, mainPc, cleanVars, pending, runs,
                   ghostVars,
                   sessVars, stopVars, srvVars, txVars, auxVars>>

\* Mutant of UploadFailed: the failed clip is tried again at once.
UploadFailedRetriesInPlace ==
    /\ loopPc' = "upload"
    /\ result' = <<FALSE>>
    /\ UNCHANGED <<fsVars, recVars, upVars, wav_files, wav_file, mainPc,
                   cleanVars, pending, runs, ghostVars,
                   sessVars, stopVars, srvVars, txVars, auxVars>>

\* What a failed upload_audio leaves behind: it returned False, the body of
\* the if is skipped and the for loop goes on.
UploadFailed ==
    /\ loopPc' = "for"
    /\ result' = <<FALSE>>
    /\ UNCHANGED <<fsVars, recVars, upVars, wav_files, wav_file, mainPc,
                   cleanVars, pending, runs, ghostVars,
                   sessVars, stopVars, srvVars, txVars, auxVars>>

\* upload_audio: a non-200 status or an exception, at any attempt.
UploadAudioFail ==
    /\ loopPc = "post"
    /\ UploadFailed
    /\ UNCHANGED collVars

\* upload_audio: one of the attempts the collector refuses before it accepts.
UploadAudioRefused ==
    /\ loopPc = "post"
    /\ refused[wav_file[1]] < failFirst[wav_file[1]]
    /\ refused' = [refused EXCEPT ![wav_file[1]] = @ + 1]
    /\ UNCHANGED failFirst
    /\ UploadFailed

\* Mutant of Touch: no marker is written.
TouchNothing(upls, c) == upls

\* wav_file.with_suffix('.uploaded').touch(): the markers after it, from the
\* markers before; an existing marker stays (exist_ok is True by default).
Touch(upls, c) == upls \cup {c}

\* if upload_audio(...): clips_uploaded += 1; X.uploaded.touch();
\* on_upload_complete(wav_file.name, ...)
LoopMark ==
    /\ loopPc = "mark"
    /\ clips_uploaded' = clips_uploaded + 1
    /\ uploaded' = Touch(uploaded, wav_file[1])
    /\ marked' = marked \cup {wav_file[1]}
    /\ remarked' = remarked \cup ({wav_file[1]} \cap (marked \ uploaded))
    /\ notified' = notified \cup {wav_file[1]}
    /\ loopPc' = "for"
    /\ resp_session' = None
    /\ UNCHANGED <<dir_exists, wav, recording, age, recVars, is_running,
                   session_id, wav_files, wav_file, result, mainPc, cleanVars, pending,
                   runs, collVars, delivered, duplicated, form_session, adopted,
                   start_status, started, clip_session, stopVars, srvVars, txVars, auxVars>>

\* ------------------------------------------------------------ main thread
\* Mutant of StartSession: the id of the body is taken whatever the status.
StartSessionAnyStatus(status, id) == id

\* start_session: self.session_id after an answer of that status whose body
\* has that 'id' (None: no body, or no such key); an exception is a "fail".
StartSession(status, id) == IF status = "200" THEN id ELSE session_id

\* start_session: the value returned
StartSessionReturn(status, id) == IF status = "200" THEN id ELSE None

\* self.client.start_session() against a collector that opens the session it
\* answers 200 for.
StartSessionCall ==
    \E status \in {"200", "fail"}, id \in FreshIds \cup {None} :
       /\ session_id' = StartSession(status, id)
       /\ started' = <<StartSessionReturn(status, id)>>
       /\ start_status' = status
       /\ open' = IF status = "200" /\ id # None THEN open \cup {id} ELSE open

\* SleepUploader.start past its guard: start_session sets session_id to the
\* id of a 200 answer and leaves it on a failure; then mkdir, is_running =
\* True and the daemon thread starts.
StartCall ==
    /\ ~is_running
    /\ starts' = starts + 1
    /\ StartSessionCall
    /\ dir_exists' = TRUE
    /\ is_running' = TRUE
    /\ loopPc' = "while"
    /\ UNCHANGED <<wav, recording, uploaded, age, recVars, clips_uploaded,
                   wav_files, wav_file, result, cleanVars, pending, runs, collVars,
                   ghostVars, form_session, resp_session, adopted, clip_session,
                   stops, end_sent, end_status, end_ret, ended, txVars, auxVars>>

\* SleepUploader.start as HomeMicAgent.run calls it in a fresh process.
AgentStart ==
    /\ mainPc = "start"
    /\ StartCall
    /\ mainPc' = "recorder"

\* self.recorder.start() succeeds; the main loop is entered.
RecorderStart ==
    /\ mainPc = "recorder"
    /\ recPc' = "idle"
    /\ mainPc' = "main"
    /\ start_status' = "none" /\ started' = <<>>
    /\ UNCHANGED <<fsVars, nextClip, upVars, loopVars, cleanVars, pending, runs,
                   collVars, ghostVars, form_session, resp_session, adopted,
                   clip_session, stopVars, srvVars, txVars, auxVars>>

\* Memory of a process that is gone: every thread and every attribute.
ProcessGone ==
    /\ mainPc' = "down"
    /\ loopPc' = "none"
    /\ recPc' = "off"
    /\ is_running' = FALSE
    /\ session_id' = None
    /\ clips_uploaded' = 0
    /\ wav_files' = {} /\ wav_file' = <<>> /\ result' = <<>>
    /\ markers' = {} /\ uploaded_marker' = <<>> /\ snapshot' = {}
    /\ pending' = 0
    /\ notified' = {}
    /\ form_session' = <<>> /\ resp_session' = None /\ adopted' = None
    /\ start_status' = "none" /\ started' = <<>>
    /\ starts' = 0 /\ stops' = 0 /\ end_sent' = FALSE
    /\ end_status' = "none" /\ end_ret' = <<>>
    /\ audio_level' = <<>> /\ cleanup_error' = FALSE /\ stale' = <<>>
    /\ UNCHANGED <<fsVars, nextClip, keep_days, runs, collVars, delivered,
                   duplicated, marked, remarked, clip_session, srvVars, txVars,
                   corrupt, level_input, level_output>>

\* self.recorder.start() raises: run() logs and returns, the process ends and
\* takes the daemon upload thread with it.
RecorderStartFails ==
    /\ mainPc = "recorder"
    /\ ProcessGone

\* Mutant of CountPending: the .recording check is lost.
RECURSIVE CountPendingNoRecordingCheck(_, _, _)
CountPendingNoRecordingCheck(files, recs, upls) ==
    IF files = {} THEN 0
    ELSE LET f == CHOOSE x \in files : TRUE
         IN  (IF f \notin upls THEN 1 ELSE 0)
             + CountPendingNoRecordingCheck(files \ {f}, recs, upls)

\* get_pending_count over the entries of glob("*.wav"), one after the other:
\* pending += 1 for an entry with no .uploaded and no .recording sidecar.
RECURSIVE CountPending(_, _, _)
CountPending(files, recs, upls) ==
    IF files = {} THEN 0
    ELSE LET f == CHOOSE x \in files : TRUE
         IN  (IF f \notin upls
                THEN (IF f \notin recs THEN 1 ELSE 0)
                ELSE 0)
             + CountPending(files \ {f}, recs, upls)

\* get_pending_count: 0 without the directory, else the count
PendingCount(exists, files, recs, upls) ==
    IF ~exists THEN 0 ELSE CountPending(files, recs, upls)

\* main loop, once a minute: pending = self.uploader.get_pending_count()
GetPendingCount ==
    /\ mainPc = "main"
    /\ pending' = PendingCount(dir_exists, GlobWav, recording, uploaded)
    /\ mainPc' = "cleanup"
    /\ UNCHANGED <<fsVars, recVars, upVars, loopVars, cleanVars, runs,
                   collVars, ghostVars,
                   sessVars, stopVars, srvVars, txVars, auxVars>>

\* cleanup_uploaded: return without the directory; else
\* for uploaded_marker in self.storage_dir.glob("*.uploaded")
CleanupScan ==
    /\ mainPc = "cleanup"
    /\ markers' = IF dir_exists THEN GlobUploaded ELSE {}
    /\ snapshot' = markers'
    /\ uploaded_marker' = <<>>
    /\ mainPc' = "cl_for"
    /\ UNCHANGED <<fsVars, recVars, upVars, loopVars, keep_days, pending, runs,
                   collVars, ghostVars,
                   sessVars, stopVars, srvVars, txVars, auxVars>>

\* cleanup_uploaded: next marker of the glob, or the end of the pass
CleanupNext ==
    /\ mainPc = "cl_for"
    /\ IF markers = {}
         THEN mainPc' = "cl_done" /\ uploaded_marker' = <<>> /\ markers' = {}
         ELSE \E c \in markers :
                /\ uploaded_marker' = <<c>>
                /\ markers' = markers \ {c}
                /\ mainPc' = "cl_wav"
    /\ UNCHANGED <<fsVars, recVars, upVars, loopVars, keep_days, snapshot,
                   pending, runs, collVars, ghostVars,
                   sessVars, stopVars, srvVars, txVars, auxVars>>

\* Mutant of CleanupWav: the audio file is left in place.
CleanupWavKeepsFile ==
    /\ mainPc = "cl_wav"
    /\ mainPc' = "cl_marker"
    /\ UNCHANGED <<fsVars, recVars, upVars, loopVars, cleanVars, pending, runs,
                   collVars, ghostVars,
                   sessVars, stopVars, srvVars, txVars, auxVars>>

\* cleanup_uploaded: if wav_file.exists(): wav_file.unlink()
CleanupWav ==
    /\ mainPc = "cl_wav"
    /\ wav' = wav \ {uploaded_marker[1]}
    /\ mainPc' = "cl_marker"
    /\ UNCHANGED <<dir_exists, recording, uploaded, age, recVars, upVars,
                   loopVars, cleanVars, pending, runs, collVars, ghostVars,
                   sessVars, stopVars, srvVars, txVars, auxVars>>

\* cleanup_uploaded: uploaded_marker.unlink()
CleanupMarker ==
    /\ mainPc = "cl_marker"
    /\ uploaded' = uploaded \ {uploaded_marker[1]}
    /\ mainPc' = "cl_for"
    /\ UNCHANGED <<dir_exists, wav, recording, age, recVars, upVars, loopVars,
                   cleanVars, pending, runs, collVars, ghostVars,
                   sessVars, stopVars, srvVars, txVars, auxVars>>

\* cleanup_uploaded returned; time.sleep(1) and the next round of the loop
CleanupReturn ==
    /\ mainPc = "cl_done"
    /\ mainPc' = "main"
    /\ snapshot' = {}
    /\ pending' = 0
    /\ UNCHANGED <<fsVars, recVars, upVars, loopVars, keep_days, markers,
                   uploaded_marker, runs, collVars, ghostVars,
                   sessVars, stopVars, srvVars, txVars, auxVars>>

\* The positions of the main thread inside run()'s try block.
MainLoopPcs == {"main", "cleanup", "cl_for", "cl_wav", "cl_marker", "cl_done"}

\* What stop() does first: HomeMicAgent.stop stops the recorder (which closes
\* the clip in progress or leaves it), then SleepUploader.stop clears
\* is_running.
StopCall ==
    /\ stops' = stops + 1
    /\ is_running' = FALSE
    /\ recPc' = "off"
    /\ \/ recording' = recording
       \/ recPc = "rec" /\ recording' = recording \ {nextClip}
    /\ mainPc' = "end_session"
    /\ markers' = {} /\ uploaded_marker' = <<>> /\ snapshot' = {}
    /\ pending' = 0
    /\ UNCHANGED <<dir_exists, wav, uploaded, age, nextClip, session_id,
                   clips_uploaded, loopVars, keep_days, runs, collVars,
                   ghostVars, sessVars, starts, end_sent, end_status, end_ret,
                   srvVars, txVars, auxVars>>

\* KeyboardInterrupt or an exception in the main loop: the finally clause of
\* run() calls stop().
StopBegin ==
    /\ mainPc \in MainLoopPcs
    /\ StopCall

\* A signal in the main loop: signal_handler called stop() (as StopBegin),
\* and its sys.exit(0) runs the finally clause of run(), which calls stop()
\* again.
StopAgain ==
    /\ mainPc = "stopped"
    /\ stops < MaxStops
    /\ StopCall

\* What end_session leaves alone, and where stop() goes on.
EndSessionFrame ==
    /\ mainPc = "end_session"
    /\ mainPc' = "join"
    /\ UNCHANGED <<fsVars, recVars, is_running, clips_uploaded, loopVars,
                   cleanVars, pending, runs, collVars, ghostVars, sessVars,
                   starts, stops, txVars, auxVars>>

\* end_session: if not self.session_id: return False
EndSessionNone ==
    /\ session_id = None
    /\ end_ret' = <<FALSE>>
    /\ UNCHANGED <<session_id, end_sent, end_status, srvVars, txVars, auxVars>>
    /\ EndSessionFrame

\* end_session: the request for self.session_id goes out
EndSessionRequest ==
    /\ session_id # None
    /\ end_sent' = TRUE

\* The collector answers 200 to the end request: the session is ended there.
CollectorEnds ==
    /\ end_status' = "200"
    /\ open' = open \ {session_id}
    /\ ended' = ended \cup {session_id}

\* Mutant of EndSessionOk: the id is kept after a 200.
EndSessionOkKeepsId ==
    /\ EndSessionRequest
    /\ CollectorEnds
    /\ session_id' = session_id
    /\ end_ret' = <<TRUE>>
    /\ EndSessionFrame

\* end_session: 200, the calculate-score request returns (with any status):
\* session_id = None, return True
EndSessionOk ==
    /\ EndSessionRequest
    /\ CollectorEnds
    /\ session_id' = None
    /\ end_ret' = <<TRUE>>
    /\ EndSessionFrame

\* end_session: 200, the calculate-score request raises inside the try: the
\* except clause logs, and return False is reached with session_id as it was.
EndSessionScoreRaises ==
    /\ EndSessionRequest
    /\ CollectorEnds
    /\ session_id' = session_id
    /\ end_ret' = <<FALSE>>
    /\ EndSessionFrame

\* end_session: a non-200 answer or an exception of the end request
EndSessionFail ==
    /\ EndSessionRequest
    /\ end_status' = "fail"
    /\ session_id' = session_id
    /\ end_ret' = <<FALSE>>
    /\ UNCHANGED srvVars
    /\ EndSessionFrame

\* SleepUploader.stop: self.client.end_session()
StopEndSession ==
    \/ EndSessionNone \/ EndSessionFail \/ EndSessionOk
    \/ EndSessionScoreRaises

\* SleepUploader.stop: self._thread.join(timeout=5.0) returns, the thread
\* finished or not.
StopJoin ==
    /\ mainPc = "join"
    /\ mainPc' = "stopped"
    /\ end_sent' = FALSE /\ end_status' = "none" /\ end_ret' = <<>>
    /\ UNCHANGED <<fsVars, recVars, upVars, loopVars, cleanVars, pending, runs,
                   collVars, ghostVars, sessVars, starts, stops, srvVars, txVars, auxVars>>

\* run() returns and the interpreter exits; a daemon thread still running is
\* abandoned where it is.
ProcessExit ==
    /\ mainPc = "stopped"
    /\ ProcessGone

\* The process is killed (power loss, SIGKILL) at any point.
Crash ==
    /\ mainPc \notin {"down", "stopped"}
    /\ ProcessGone

\* The agent is started again on the same storage directory.
Restart ==
    /\ mainPc = "down"
    /\ runs < MaxRuns
    /\ runs' = runs + 1
    /\ mainPc' = "start"
    /\ UNCHANGED <<fsVars, recVars, upVars, loopVars, cleanVars, pending,
                   collVars, ghostVars,
                   sessVars, stopVars, srvVars, txVars, auxVars>>

\* ------------------------------------------------------------ the agent
\* One run of the agent: recorder, upload thread and main thread, to its exit.
RunNext ==
    \/ CapturerBegin \/ CapturerFinalize
    \/ LoopWhile \/ LoopFor \/ LoopCheckRecording \/ LoopCheckUploaded
    \/ UploadAudioOpen \/ UploadAudioOk \/ UploadAudioFail \/ LoopMark
    \/ AgentStart \/ RecorderStart \/ RecorderStartFails
    \/ GetPendingCount
    \/ CleanupScan \/ CleanupNext \/ CleanupWav \/ CleanupMarker \/ CleanupReturn
    \/ StopBegin \/ StopEndSession \/ StopJoin \/ ProcessExit

\* Runs of the agent one after the other, each ended by its exit or by a crash.
Next == RunNext \/ Crash \/ Restart

Spec == Init /\ [][Next]_vars

SpecRun == Init /\ [][RunNext]_vars

\* One run of the agent ended by a signal: stop() is called a second time.
SignalNext == RunNext \/ StopAgain

SpecSignal == Init /\ [][SignalNext]_vars

\* ------------------------------------------- get_pending_count on its own
\* A constructed, not started uploader over any directory of CountClips clip
\* names (or over no directory at all).
InitCount ==
    /\ Fresh
    /\ mainPc = "main"
    /\ nextClip = 0
    /\ keep_days = 0
    /\ dir_exists \in BOOLEAN
    /\ wav \in SUBSET (1..CountClips)
    /\ recording \in SUBSET (1..CountClips)
    /\ uploaded \in SUBSET (1..CountClips)
    /\ ~dir_exists => (wav = {} /\ recording = {} /\ uploaded = {})
    /\ age = [c \in Clips |-> 0]
    /\ NeverRefuses
    /\ NoSessions
    /\ TxFresh
    /\ Undisturbed

CountNext == GetPendingCount

SpecCount == InitCount /\ [][CountNext]_vars

\* ------------------------------------------- cleanup_uploaded on its own
\* A constructed uploader whose caller is about to run
\* cleanup_uploaded(keep_days) over a directory of clips of any age, each
\* absent, being recorded, pending, uploaded, or a marker left without file.
InitRetention ==
    /\ Fresh
    /\ mainPc = "cleanup"
    /\ nextClip = 0
    /\ keep_days \in 0..MaxKeepDays
    /\ dir_exists = TRUE
    /\ wav \in SUBSET Clips
    /\ recording \in SUBSET wav
    /\ uploaded \in SUBSET (Clips \ recording)
    /\ age \in [Clips -> 0..MaxKeepDays]
    /\ NeverRefuses
    /\ NoSessions
    /\ TxFresh
    /\ Undisturbed

RetentionNext == CleanupScan \/ CleanupNext \/ CleanupWav \/ CleanupMarker

SpecRetention == InitRetention /\ [][RetentionNext]_vars


\* --------------------------------------------- recovery of left-over clips
\* The agent is started on a directory that holds N finalized clips and no
\* marker; the recorder adds nothing.
InitRecover ==
    /\ Fresh
    /\ mainPc = "start"
    /\ keep_days = 0
    /\ dir_exists = TRUE
    /\ nextClip \in 0..MaxClips
    /\ wav = 1..nextClip /\ recording = {} /\ uploaded = {}
    /\ age = [c \in Clips |-> 0]
    /\ NeverRefuses
    /\ NoSessions
    /\ TxFresh
    /\ Undisturbed

\* The steps of the upload thread with a collector that accepts.
LoopStep ==
    \/ LoopWhile \/ LoopFor \/ LoopCheckRecording \/ LoopCheckUploaded
    \/ UploadAudioOpen \/ UploadAudioOk \/ LoopMark

\* The main thread up to and in its loop, never stopped.
MainStep ==
    \/ AgentStart \/ RecorderStart \/ GetPendingCount
    \/ CleanupScan \/ CleanupNext \/ CleanupWav \/ CleanupMarker \/ CleanupReturn

RecoverNext == LoopStep \/ MainStep

\* The main thread gets to start the uploader and the upload thread is
\* scheduled again and again; every request ends (timeout=120).
Fairness == WF_vars(AgentStart) /\ WF_vars(LoopStep)

SpecRecover == InitRecover /\ [][RecoverNext]_vars /\ Fairness

\* ------------------------------------------------- retry until accepted
\* As InitRecover, with a collector that refuses the first K attempts for
\* each clip, for any K up to MaxK.
InitRetry ==
    /\ Fresh
    /\ mainPc = "start"
    /\ keep_days = 0
    /\ dir_exists = TRUE
    /\ nextClip \in 0..MaxClips
    /\ wav = 1..nextClip /\ recording = {} /\ uploaded = {}
    /\ age = [c \in Clips |-> 0]
    /\ \E k \in 0..MaxK : failFirst = [c \in Clips |-> k]
    /\ refused = [c \in Clips |-> 0]
    /\ NoSessions
    /\ TxFresh
    /\ Undisturbed

RetryLoopStep == LoopStep \/ UploadAudioRefused

RetryNext == RetryLoopStep \/ MainStep

SpecRetry ==
    InitRetry /\ [][RetryNext]_vars /\ WF_vars(AgentStart) /\ WF_vars(RetryLoopStep)

\* ------------------------------------- the uploader through its interface
\* start() on an uploader that is not running: after construction or after a
\* stop() (here: one whose thread has ended).
UploaderStart ==
    /\ mainPc \in {"start", "stopped"}
    /\ starts < MaxStarts
    /\ loopPc \in {"none", "exit"}
    /\ StartCall
    /\ mainPc' = "main"

\* start() on a running uploader: if self.is_running: return
UploaderStartRunning ==
    /\ mainPc = "main"
    /\ starts < MaxStarts
    /\ is_running
    /\ starts' = starts + 1
    /\ UNCHANGED <<fsVars, recVars, upVars, loopVars, mainPc, cleanVars,
                   pending, runs, collVars, ghostVars, sessVars, stops,
                   end_sent, end_status, end_ret, srvVars, txVars, auxVars>>

\* A constructed uploader over a directory of left-over clips.
InitApi ==
    /\ Fresh
    /\ mainPc = "start"
    /\ keep_days = 0
    /\ dir_exists = TRUE
    /\ nextClip \in 0..MaxApiClips
    /\ wav = 1..nextClip /\ recording = {} /\ uploaded = {}
    /\ age = [c \in Clips |-> 0]
    /\ NeverRefuses
    /\ NoSessions
    /\ TxFresh
    /\ Undisturbed

\* The owner of the uploader calls start() and stop() in any order, each any
\* number of times, while the loop works on the directory.
ApiNext ==
    \/ UploaderStart \/ UploaderStartRunning
    \/ LoopStep \/ UploadAudioFail
    \/ StopBegin \/ StopAgain \/ StopEndSession \/ StopJoin

SpecApi == InitApi /\ [][ApiNext]_vars

\* ------------------------------------- the transmitter of audio_capture.py
\* What the transmitter leaves alone: the agent and its directory.
TxFrame ==
    UNCHANGED <<fsVars, recVars, upVars, loopVars, mainPc, cleanVars, pending,
                runs, collVars, ghostVars, sessVars, stopVars, srvVars, auxVars>>

\* The bodies of a 200 answer of the upload endpoint: without 'sessionId', or
\* with it and any value (None: null).
TxBodies == {<<>>} \cup {<<v>> : v \in SessionIds \cup {None}}

\* result.get('sessionId', self.session_id)
TxGet(body, default) == IF body = <<>> THEN default ELSE body[1]

\* send_chunk: the chunk is saved to BUFFER_DIR and posted with
\* 'sessionId': self.session_id or ''
SendChunkCall ==
    /\ txPc = "send"
    /\ tx_chunks < MaxChunks
    /\ tx_chunks' = tx_chunks + 1
    /\ tx_sent' = SessionField(tx_session_id)
    /\ txPc' = "retry"
    /\ TxFrame

\* send_chunk: 200: self.session_id = result.get('sessionId',
\* self.session_id); the file is unlinked; return True
SendChunkOk ==
    /\ SendChunkCall
    /\ \E body \in TxBodies :
          /\ tx_resp' = body
          /\ tx_session_id' = TxGet(body, tx_session_id)
    /\ tx_adopted' = IF tx_adopted = None /\ tx_session_id = None
                       THEN tx_session_id' ELSE tx_adopted
    /\ tx_buffer' = tx_buffer

\* send_chunk: a non-200 status or a RequestException: the file stays in
\* BUFFER_DIR; return False
SendChunkFail ==
    /\ SendChunkCall
    /\ tx_buffer' = tx_buffer \cup {tx_chunks + 1}
    /\ UNCHANGED <<tx_session_id, tx_resp, tx_adopted>>

\* main: if BUFFER_DIR holds files, retry_buffered posts them in order (at
\* most 10, which MaxChunks stays below) with 'piId' only: a file answered
\* 200 is unlinked, one answered otherwise stays, an exception ends the pass.
TxRetry ==
    /\ txPc = "retry"
    /\ tx_buffer' \in SUBSET tx_buffer
    /\ txPc' = "send"
    /\ UNCHANGED <<tx_session_id, tx_chunks, tx_sent, tx_resp, tx_adopted>>
    /\ TxFrame

TxNext == SendChunkOk \/ SendChunkFail \/ TxRetry

SpecTx == Init /\ [][TxNext]_vars

\* ------------------------------------------------ marking a clip uploaded
\* A loop thread that got True from upload_audio for a clip and is about to
\* mark it, over any directory: the clip may have its marker already (another
\* loop thread of the same uploader, left behind by a stop() whose join timed
\* out and followed by start(), took the same clip); other clips may be
\* uploaded, pending or being recorded.  The loop and cleanup go on from there.
InitMark ==
    /\ recPc = "off" /\ nextClip = 0
    /\ mainPc = "main"
    /\ is_running = TRUE /\ session_id = None /\ clips_uploaded = 0
    /\ dir_exists = TRUE
    /\ wav \in SUBSET Clips
    /\ recording \in SUBSET wav
    /\ uploaded \in SUBSET (Clips \ recording)
    /\ age = [c \in Clips |-> 0]
    /\ loopPc = "mark"
    /\ \E c \in wav \ recording : wav_file = <<c>>
    /\ wav_files \in SUBSET (wav \ {wav_file[1]})
    /\ result = <<TRUE>>
    /\ audio_level = <<UploaderCalculateAudioLevel(SoundFile).value>>
    /\ keep_days = 0 /\ markers = {} /\ uploaded_marker = <<>> /\ snapshot = {}
    /\ pending = 0 /\ runs = 1
    /\ marked = uploaded
    /\ delivered = marked \cup {wav_file[1]}
    /\ duplicated = marked \cap {wav_file[1]}
    /\ remarked = {} /\ notified = marked
    /\ form_session = <<>> /\ resp_session = None /\ adopted = None
    /\ start_status = "none" /\ started = <<>>
    /\ starts = 1 /\ stops = 0
    /\ end_sent = FALSE /\ end_status = "none" /\ end_ret = <<>>
    /\ NeverRefuses
    /\ NoSessions
    /\ TxFresh
    /\ Undisturbed

MarkNext ==
    \/ LoopStep \/ UploadAudioFail \/ GetPendingCount
    \/ CleanupScan \/ CleanupNext \/ CleanupWav \/ CleanupMarker \/ CleanupReturn

SpecMark == InitMark /\ [][MarkNext]_vars

\* ------------------------------------------------- failures of the disk
\* Mutant of LoopExcept: the exception ends the thread.
LoopExceptEndsThread == "exit"

\* _upload_loop: except Exception: the error is logged, time.sleep(10), and
\* the while condition is evaluated again.
LoopExcept == "while"

\* clips_uploaded += 1, then touch() raises (disk full, directory read-only):
\* no marker, no callback; the except clause of the loop takes over.
LoopTouchFails ==
    /\ loopPc = "mark"
    /\ clips_uploaded < MaxCount
    /\ clips_uploaded' = clips_uploaded + 1
    /\ loopPc' = LoopExcept
    /\ wav_files' = {}
    /\ resp_session' = None
    /\ UNCHANGED <<fsVars, recVars, is_running, session_id, wav_file, result,
                   mainPc, cleanVars, pending, runs, collVars, ghostVars,
                   form_session, adopted, start_status, started, clip_session,
                   stopVars, srvVars, txVars, auxVars>>

\* clips_uploaded += 1, touch(), then on_upload_complete raises: the except
\* clause of the loop takes over.
LoopCallbackRaises ==
    /\ loopPc = "mark"
    /\ clips_uploaded' = clips_uploaded + 1
    /\ uploaded' = Touch(uploaded, wav_file[1])
    /\ marked' = marked \cup {wav_file[1]}
    /\ remarked' = remarked \cup ({wav_file[1]} \cap (marked \ uploaded))
    /\ notified' = notified \cup {wav_file[1]}
    /\ loopPc' = LoopExcept
    /\ wav_files' = {}
    /\ resp_session' = None
    /\ UNCHANGED <<dir_exists, wav, recording, age, recVars, is_running,
                   session_id, wav_file, result, mainPc, cleanVars, pending,
                   runs, collVars, delivered, duplicated, form_session, adopted,
                   start_status, started, clip_session, stopVars, srvVars,
                   txVars, auxVars>>

\* What an exception of cleanup_uploaded leaves behind: nothing catches it in
\* cleanup_uploaded or in the while loop of run(), whose try has only
\* except KeyboardInterrupt.
CleanupRaises ==
    /\ cleanup_error' = TRUE
    /\ mainPc' = "raised"
    /\ UNCHANGED <<fsVars, recVars, upVars, loopVars, cleanVars, pending, runs,
                   collVars, ghostVars, sessVars, stopVars, srvVars, txVars,
                   corrupt, audio_level, stale, level_input, level_output>>

\* cleanup_uploaded: wav_file.exists() and wav_file.unlink() raises
CleanupWavFails ==
    /\ mainPc = "cl_wav"
    /\ uploaded_marker[1] \in wav
    /\ CleanupRaises

\* cleanup_uploaded: uploaded_marker.unlink() raises
CleanupMarkerFails ==
    /\ mainPc = "cl_marker"
    /\ CleanupRaises

\* The exception leaves run() through its finally clause, which calls stop().
StopFinally ==
    /\ mainPc = "raised"
    /\ StopCall

\* The uploader over left-over clips, started and stopped by its owner, on a
\* disk where the creation of a marker can fail and with a callback that can
\* raise.
CycleNext ==
    \/ UploaderStart \/ LoopStep \/ UploadAudioFail
    \/ LoopTouchFails \/ LoopCallbackRaises
    \/ StopBegin \/ StopEndSession \/ StopJoin

SpecCycle == InitApi /\ [][CycleNext]_vars

\* One run of the agent on a disk where the removal of a file can fail.
ReclaimNext ==
    \/ RunNext
    \/ CleanupWavFails \/ CleanupMarkerFails \/ StopFinally

SpecReclaim == Init /\ [][ReclaimNext]_vars


\* --------------------------------------------------- malformed clip files
\* As InitApi, with any of the left-over files malformed.
InitCorrupt ==
    /\ Fresh
    /\ mainPc = "start"
    /\ keep_days = 0
    /\ dir_exists = TRUE
    /\ nextClip \in 0..MaxApiClips
    /\ wav = 1..nextClip /\ recording = {} /\ uploaded = {}
    /\ age = [c \in Clips |-> 0]
    /\ NeverRefuses
    /\ NoSessions
    /\ TxFresh
    /\ corrupt \in SUBSET wav
    /\ cleanup_error = FALSE
    /\ stale = <<>>
    /\ level_input = SoundFile
    /\ level_output = NoLevel

SpecCorrupt == InitCorrupt /\ [][ApiNext]_vars

\* --------------------------------------------- the level functions alone
\* The sample values of the inputs, in units of 2048: full scale negative,
\* silence, just below and just above the level that saturates.
Amplitudes == {-16, 0, 3, 4}

\* The sequences of up to n amplitudes
RECURSIVE SamplesUpTo(_)
SamplesUpTo(n) ==
    IF n = 0 THEN {<<>>}
    ELSE SamplesUpTo(n - 1) \cup
         {Append(s, a) : s \in {t \in SamplesUpTo(n - 1) : Len(t) = n - 1},
                         a \in Amplitudes}

\* The inputs: a file that opens as WAV or not, of 8-bit or 16-bit frames,
\* or a block of bytes; its whole samples and whether a byte is left over.
LevelInputs ==
    [readable : BOOLEAN, sampwidth : {1, 2}, samples : SamplesUpTo(MaxSamples),
     odd : BOOLEAN]

InitLevel ==
    /\ Fresh
    /\ mainPc = "start"
    /\ nextClip = 0
    /\ keep_days = 0
    /\ dir_exists = TRUE
    /\ wav = {} /\ recording = {} /\ uploaded = {}
    /\ age = [c \in Clips |-> 0]
    /\ NeverRefuses
    /\ NoSessions
    /\ TxFresh
    /\ corrupt = {}
    /\ cleanup_error = FALSE
    /\ stale = <<>>
    /\ level_input \in LevelInputs
    /\ level_output = NoLevel

\* What a level function leaves alone: everything but its result.
LevelFrame ==
    UNCHANGED <<fsVars, recVars, upVars, loopVars, mainPc, cleanVars, pending,
                runs, collVars, ghostVars, sessVars, stopVars, srvVars, txVars,
                corrupt, audio_level, cleanup_error, stale, level_input>>

\* self._calculate_audio_level(wav_file) on the input as a file
LevelOfFile ==
    /\ level_output = NoLevel
    /\ level_output' = [fn |-> "file",
                        out |-> UploaderCalculateAudioLevel(level_input)]
    /\ LevelFrame

\* capture.calculate_audio_level(audio_data) on the bytes of the input
LevelOfData ==
    /\ level_output = NoLevel
    /\ level_output' = [fn |-> "data",
                        out |-> CaptureCalculateAudioLevel(level_input)]
    /\ LevelFrame

LevelNext == LevelOfFile \/ LevelOfData

SpecLevel == InitLevel /\ [][LevelNext]_vars

\* ------------------------------------------- a thread that outlives stop()
\* The locals of the loop thread in hand.
ThreadLocals ==
    [pc |-> loopPc, files |-> wav_files, file |-> wav_file, result |-> result,
     level |-> audio_level, form |-> form_session, resp |-> resp_session]

\* start() after a stop() whose join(timeout=5.0) returned with the thread
\* still in an upload (timeout=120): is_running is False, so start() goes
\* on, sets is_running and starts a second thread.  The first thread is
\* kept aside as it is; it reads the same is_running.
UploaderStartOverThread ==
    /\ mainPc = "stopped"
    /\ starts < MaxStarts
    /\ ~is_running
    /\ loopPc = "post"
    /\ stale = <<>>
    /\ starts' = starts + 1
    /\ StartSessionCall
    /\ dir_exists' = TRUE
    /\ is_running' = TRUE
    /\ stale' = <<ThreadLocals>>
    /\ loopPc' = "while"
    /\ wav_files' = {} /\ wav_file' = <<>> /\ result' = <<>>
    /\ audio_level' = <<>>
    /\ form_session' = <<>> /\ resp_session' = None
    /\ mainPc' = "main"
    /\ UNCHANGED <<wav, recording, uploaded, age, recVars, clips_uploaded,
                   cleanVars, pending, runs, collVars, ghostVars, adopted,
                   clip_session, stops, end_sent, end_status, end_ret, ended,
                   txVars, corrupt, cleanup_error, level_input, level_output>>

\* The scheduler takes the other thread in hand: the two threads run the same
\* code, so the steps of the loop are those of whichever is in hand.
ThreadSwitch ==
    /\ stale # <<>>
    /\ stale' = <<ThreadLocals>>
    /\ loopPc' = stale[1].pc
    /\ wav_files' = stale[1].files
    /\ wav_file' = stale[1].file
    /\ result' = stale[1].result
    /\ audio_level' = stale[1].level
    /\ form_session' = stale[1].form
    /\ resp_session' = stale[1].resp
    /\ UNCHANGED <<fsVars, recVars, upVars, mainPc, cleanVars, pending, runs,
                   collVars, ghostVars, adopted, start_status, started,
                   clip_session, stopVars, srvVars, txVars, corrupt,
                   cleanup_error, level_input, level_output>>

ThreadsNext == ApiNext \/ UploaderStartOverThread \/ ThreadSwitch

SpecThreads == InitApi /\ [][ThreadsNext]_vars

\* ================================================================ claims
\* The states a clip can be in, from its sidecars.
PendingUpload(c) == c \in wav /\ c \notin recording /\ c \notin uploaded

\* C1: a clip's .wav disappears only in cleanup_uploaded's unlink step for
\* that clip, and only while the clip's .uploaded marker exists and no
\* .recording marker does: a Recording or PendingUpload clip keeps its file.
C1_WavDeletedOnlyWhenUploaded ==
    [][\A c \in Clips :
         (c \in wav /\ c \notin wav') =>
            /\ mainPc = "cl_wav" /\ mainPc' = "cl_marker"
            /\ uploaded_marker = <<c>>
            /\ c \in uploaded
            /\ c \notin recording]_vars

\* C1 witness: the pass has just removed the file of an uploaded clip while
\* the upload thread is busy with another clip that has no marker.
C1_Witness ==
    /\ mainPc = "cl_marker"
    /\ uploaded_marker[1] \notin wav /\ uploaded_marker[1] \in uploaded
    /\ loopPc = "post"
    /\ PendingUpload(wav_file[1])

\* C2: X.uploaded is created only by the upload thread, in the step that
\* follows a True from upload_audio for that clip (the collector answered 200
\* for it), and never for a clip whose marker was created before.
C2_MarkedOnceAfterSuccess ==
    [][\A c \in Clips :
         (c \notin uploaded /\ c \in uploaded') =>
            /\ loopPc = "mark" /\ loopPc' = "for"
            /\ wav_file = <<c>>
            /\ result = <<TRUE>>
            /\ c \in delivered
            /\ c \notin marked]_vars

\* C2 witness: every clip has been marked, the first one reclaimed since.
C2_Witness ==
    /\ marked = Clips
    /\ remarked = {}
    /\ 1 \notin uploaded
    /\ loopPc = "for" /\ result = <<TRUE>>

\* C3: the collector never answers 200 for the same clip twice, whatever
\* failures, crashes, exits and restarts happen.
C3_NoDuplicateDelivery == duplicated = {}

\* C6: the step in which upload_audio returns False changes no file, no
\* marker, not the counter and not the set of notified clips, and leaves the
\* thread at the head of the for loop with the rest of the listing intact.
C6_FailedUploadChangesNothing ==
    [][(loopPc \in {"upload", "post"} /\ result' = <<FALSE>>) =>
          /\ wav' = wav /\ recording' = recording /\ uploaded' = uploaded
          /\ wav_file[1] \in wav' => PendingUpload(wav_file[1])'
          /\ clips_uploaded' = clips_uploaded
          /\ notified' = notified
          /\ marked' = marked
          /\ loopPc' = "for"
          /\ wav_files' = wav_files
          /\ wav_file' = wav_file]_vars

\* C6 witness: an upload has just failed, the clip is still pending and
\* another clip of the same listing is still to come.
C6_Witness ==
    /\ loopPc = "for"
    /\ result = <<FALSE>>
    /\ PendingUpload(wav_file[1])
    /\ wav_files # {}
    /\ clips_uploaded = 0

\* C7: while upload_audio runs for a clip (and when its result is acted on)
\* the clip has no .recording marker, and the value get_pending_count returned
\* counts no clip that has one.
C7_RecordingNeverPending ==
    /\ loopPc \in {"upload", "post", "mark"} => wav_file[1] \notin recording
    /\ mainPc = "cleanup" => pending <= Cardinality(wav \ recording)

\* C7 witness: a clip listed while it was being recorded is uploaded after
\* the recorder closed it, the next clip is being recorded and the count
\* left it out.
C7_Witness ==
    /\ loopPc = "post"
    /\ recording # {}
    /\ wav_file[1] \notin recording
    /\ mainPc = "cleanup"
    /\ pending = 1
    /\ Cardinality(wav) = 2

\* C9: when a pass of cleanup_uploaded is over, no clip whose marker its glob
\* returned has a file or a marker; and no step of the pass changes the file
\* or a sidecar of a clip that has no .uploaded marker.
C9_CleanupRemovesUploadedOnly ==
    /\ [](mainPc = "cl_done" =>
            \A c \in snapshot : c \notin wav /\ c \notin uploaded)
    /\ [][(mainPc \in {"cleanup", "cl_for", "cl_wav", "cl_marker"}
           /\ mainPc' \in {"cl_for", "cl_wav", "cl_marker", "cl_done"}
           /\ mainPc' # mainPc) =>
            \A c \in Clips :
               c \notin uploaded =>
                  /\ (c \in wav') = (c \in wav)
                  /\ (c \in recording') = (c \in recording)
                  /\ c \notin uploaded']_vars

\* C9 witness: a pass is over that removed an uploaded clip and left a clip
\* without marker alone.
C9_Witness ==
    /\ mainPc = "cl_done"
    /\ snapshot # {}
    /\ \E c \in Clips : c \notin snapshot /\ c \in wav /\ c \notin uploaded

\* C8: get_pending_count returns the number of .wav files with neither a
\* .recording nor an .uploaded sidecar, 0 without the directory, and changes
\* no file and no marker.
C8_PendingCountExact ==
    /\ [](mainPc = "cleanup" =>
            pending = IF dir_exists
                        THEN Cardinality({c \in wav : c \notin recording
                                                      /\ c \notin uploaded})
                        ELSE 0)
    /\ [][<<dir_exists, wav, recording, uploaded>>'
             = <<dir_exists, wav, recording, uploaded>>]_vars

\* C8 witness: five clips, one with .recording and one with .uploaded: 3.
C8_Witness ==
    /\ mainPc = "cleanup"
    /\ Cardinality(wav) = 5
    /\ Cardinality(recording) = 1 /\ recording \subseteq wav
    /\ Cardinality(uploaded) = 1 /\ uploaded \subseteq wav
    /\ recording \cap uploaded = {}
    /\ pending = 3

\* C10: with keep_days > 0, cleanup_uploaded keeps the marker (and so the
\* clip) of every uploaded clip younger than keep_days days.
C10_RetentionHonoured ==
    \A c \in snapshot :
       (keep_days > 0 /\ age[c] < keep_days) => c \in uploaded

\* C4: started on N clip files without markers against a collector that
\* accepts, the uploader marks all N clips, the collector has taken each of
\* them, and it is never handed anything but these N clips.
C4_AllRecovered ==
    /\ <>[](marked = 1..nextClip)
    /\ <>[](delivered = 1..nextClip)
    /\ [](delivered \subseteq 1..nextClip)

\* C4 witness: both left-over clips are marked and delivered.
C4_Witness ==
    /\ nextClip = MaxClips
    /\ marked = Clips
    /\ delivered = Clips
    /\ clips_uploaded = MaxClips

\* C5: whatever number K of first attempts the collector refuses for a clip,
\* the clip is marked in the end, and its file is there in every state before
\* the collector took it.
C5_RetryUntilUploaded ==
    /\ <>[](marked = 1..nextClip)
    /\ [](\A c \in 1..nextClip : c \notin delivered => c \in wav)

\* C5 witness: a clip was refused MaxK times, then taken and marked.
C5_Witness ==
    /\ nextClip >= 1
    /\ failFirst[1] = MaxK
    /\ refused[1] = MaxK
    /\ 1 \in uploaded

\* C11 as stated: a clip's .uploaded marker exists if and only if a
\* mark-uploaded step occurred for the clip before, and marking a clip whose
\* marker exists changes nothing in the directory.
C11_UploadedIffMarked ==
    /\ [](\A c \in Clips : c \in uploaded <=> c \in marked)
    /\ [][(loopPc = "mark" /\ loopPc' = "for" /\ wav_file[1] \in uploaded)
            => UNCHANGED fsVars]_vars

\* C11 amended: a clip's .uploaded marker exists if and only if a
\* mark-uploaded step occurred for the clip and cleanup_uploaded has not
\* unlinked the marker since: the marker exists only for clips marked
\* before, it appears only in (and always by) the mark step for its clip, it
\* disappears only in cleanup_uploaded's unlink of it; and marking a clip
\* whose marker exists changes nothing in the directory.
C11_UploadedIffMarkedNotReclaimed ==
    /\ [](uploaded \subseteq marked)
    /\ [][\A c \in Clips :
            (c \notin uploaded /\ c \in uploaded') =>
               (loopPc = "mark" /\ loopPc' = "for" /\ wav_file = <<c>>)]_vars
    /\ [][(loopPc = "mark" /\ loopPc' = "for") =>
            (wav_file[1] \in uploaded' /\ wav_file[1] \in marked')]_vars
    /\ [][\A c \in Clips :
            (c \in uploaded /\ c \notin uploaded') =>
               (mainPc = "cl_marker" /\ mainPc' = "cl_for"
                /\ uploaded_marker = <<c>>)]_vars
    /\ [][(loopPc = "mark" /\ loopPc' = "for" /\ wav_file[1] \in uploaded)
            => UNCHANGED fsVars]_vars

\* C11 witness: a clip that had its marker has been marked again (its marker
\* is there), and another clip marked before has lost its marker to cleanup.
C11_Witness ==
    /\ loopPc = "for" /\ result = <<TRUE>>
    /\ wav_file[1] \in duplicated
    /\ wav_file[1] \in uploaded
    /\ clips_uploaded = 1
    /\ \E d \in marked : d \notin uploaded

\* C12: stop() clears the running flag, then waits for the join of the upload
\* thread, and only then sends the end-session request: while the main thread
\* is at the join (it has not returned yet), the stop() in progress has sent
\* no end-session request, and none is sent with the flag still set.
C12_EndSessionAfterJoin ==
    /\ end_sent => ~is_running
    /\ mainPc = "join" => ~end_sent

\* C13: start() on a running uploader starts no session and no thread; a
\* stop() ends with the uploader not running, and no end-session request is
\* sent for a session the collector has ended already (as a second stop()
\* after a first one that ended the session would).
C13_StartStopIdempotent ==
    /\ [][(starts' > starts /\ is_running) =>
            (UNCHANGED <<upVars, loopVars, srvVars>>
             /\ start_status' = start_status)]_vars
    /\ [](mainPc = "stopped" => ~is_running)
    /\ [][(end_sent' /\ ~end_sent) => session_id \notin ended]_vars

\* C14: a start() that gets past its guard sets session_id to the id of the
\* answer when start_session got a 200 (that session is then open at the
\* collector); on a failure it leaves session_id as it was (None for a client
\* without session), start_session returns None and no session is opened; in
\* both cases the upload loop is launched; and a request built while the
\* client has no session carries the empty session field.
C14_StartSessionOutcome ==
    /\ [][(starts' > starts /\ ~is_running) =>
            /\ start_status' = "200" =>
                  /\ started' = <<session_id'>>
                  /\ session_id' # None =>
                        (session_id' \in open' /\ session_id' \notin open)
            /\ start_status' = "fail" =>
                  /\ session_id' = session_id
                  /\ started' = <<None>>
                  /\ open' = open
            /\ start_status' \in {"200", "fail"}
            /\ is_running' /\ loopPc' = "while"]_vars
    /\ [][(loopPc = "upload" /\ loopPc' = "post" /\ session_id = None) =>
            form_session' = <<>>]_vars

\* C14 witness: start_session failed, the client has no session, the loop
\* runs and has a request with the empty session field in flight.
C14_Witness ==
    /\ start_status = "fail"
    /\ started = <<None>>
    /\ session_id = None
    /\ is_running
    /\ loopPc = "post"
    /\ form_session = <<>>

\* C15 as stated: a call of end_session leaves the client without session;
\* made without a session it sends no request, changes nothing at the
\* collector and leaves session_id unset.
C15_EndSessionToNoSession ==
    [][(mainPc = "end_session" /\ mainPc' = "join") =>
         /\ session_id' = None
         /\ session_id = None =>
               (~end_sent' /\ UNCHANGED srvVars /\ end_ret' = <<FALSE>>)]_vars

\* C15 amended: a call of end_session that returns True has taken the client
\* from a session to none, one that returns False leaves session_id as it
\* was; made without a session it returns False, sends no request, changes
\* nothing at the collector and leaves session_id unset, at every call.
C15_EndSessionTrueToNoSession ==
    [][(mainPc = "end_session" /\ mainPc' = "join") =>
         /\ end_ret' \in {<<TRUE>>, <<FALSE>>}
         /\ end_ret' = <<TRUE>> => (session_id # None /\ session_id' = None)
         /\ end_ret' = <<FALSE>> => session_id' = session_id
         /\ session_id = None =>
               /\ session_id' = None
               /\ end_ret' = <<FALSE>>
               /\ ~end_sent'
               /\ UNCHANGED srvVars]_vars

\* C15 witness: the first stop() ended the session, the second one has called
\* end_session without a session: no request, False.
C15_Witness ==
    /\ stops = 2
    /\ mainPc = "join"
    /\ session_id = None
    /\ ended # {}
    /\ ~end_sent
    /\ end_ret = <<FALSE>>

\* C16: whenever the end request is answered 200, end_session returns True
\* and the client is left without session, whatever becomes of the
\* calculate-score request that follows.
C16_ScoreFireAndForget ==
    [][(mainPc = "end_session" /\ mainPc' = "join" /\ end_status' = "200") =>
         (end_ret' = <<TRUE>> /\ session_id' = None)]_vars

\* C17: a client without session sends its upload with the empty session
\* field; when the 200 answer carries a session id the client takes it; and
\* every later upload of the run carries the id taken.  Stated for
\* SleepModeClient.upload_audio and for AudioTransmitter.send_chunk.
C17_AdoptedIdCarried ==
    /\ [][(loopPc = "upload" /\ loopPc' = "post" /\ session_id = None) =>
            form_session' = <<>>]_vars
    /\ [][(loopPc = "post" /\ loopPc' = "mark" /\ session_id = None
           /\ resp_session' # None) => session_id' = resp_session']_vars
    /\ [](loopPc = "post" /\ adopted # None => form_session = <<adopted>>)
    /\ [][(tx_chunks' > tx_chunks /\ tx_session_id = None) =>
            tx_sent' = <<>>]_vars
    /\ [][(tx_chunks' > tx_chunks /\ tx_session_id = None /\ tx_resp' # <<>>
           /\ tx_resp' # <<None>>) => tx_session_id' = tx_resp'[1]]_vars
    /\ [][(tx_chunks' > tx_chunks /\ tx_adopted # None) =>
            tx_sent' = <<tx_adopted>>]_vars

\* C18: while a client holds a session id, no answer to an upload changes it,
\* whatever session id the answer carries.  Stated for
\* SleepModeClient.upload_audio and for AudioTransmitter.send_chunk.
C18_HeldIdKept ==
    /\ [][(loopPc = "post" /\ loopPc' \in {"mark", "for"}
           /\ session_id # None) => session_id' = session_id]_vars
    /\ [][(tx_chunks' > tx_chunks /\ tx_session_id # None) =>
            tx_session_id' = tx_session_id]_vars

\* C19: the request of every upload attempt for a clip that the recorder
\* opened while a session was active carries the id of that session.
C19_ClipCarriesItsSession ==
    (loopPc = "post" /\ clip_session[wav_file[1]] # None) =>
        form_session = <<clip_session[wav_file[1]]>>

\* C20: the collector never has more than one session of this agent open: no
\* session is started or taken from an answer while an earlier one has not
\* been ended there.
C20_OneOpenSession == Cardinality(open) <= 1

\* C21: whenever the agent process ends (run() returns or the interpreter
\* exits) while the client holds a session, stop() has been called in this
\* run, and with it end_session for that session.
C21_SessionEndedAtShutdown ==
    [][(mainPc # "down" /\ mainPc' = "down" /\ session_id # None) =>
          stops > 0]_vars

\* C22: the upload thread leaves its loop only at the while condition, with
\* is_running cleared by a stop(); whatever an upload, a marker creation or
\* the callback does, the thread is afterwards in the loop (at the for or at
\* the while), and the main thread is where it was.
C22_CycleFailuresContained ==
    /\ [][(loopPc # "exit" /\ loopPc' = "exit") =>
            (loopPc = "while" /\ ~is_running /\ stops > 0)]_vars
    /\ [][(loopPc \in {"upload", "post", "mark"} /\ loopPc' # loopPc
           /\ mainPc' # "down") =>
            (loopPc' \in {"post", "mark", "for", "while"}
             /\ mainPc' = mainPc)]_vars

\* C22 witness: a marker creation has failed for an accepted clip, the thread
\* is back at the while condition and the agent is in its main loop.
C22_Witness ==
    /\ loopPc = "while"
    /\ result = <<TRUE>>
    /\ wav_file # <<>> /\ wav_file[1] \notin uploaded
    /\ is_running
    /\ mainPc \in MainLoopPcs

\* C23: after an unlink of cleanup_uploaded has raised, the main thread is
\* still in its loop, and the clip in hand has its marker if it has its file.
C23_CleanupErrorContained ==
    cleanup_error =>
        /\ mainPc \in MainLoopPcs
        /\ (uploaded_marker # <<>> /\ uploaded_marker[1] \in wav) =>
              uploaded_marker[1] \in uploaded

\* C24: no upload request is in flight for a clip whose file is malformed,
\* and such a clip never gets its marker.
C24_CorruptClipSkipped ==
    /\ loopPc = "post" => wav_file[1] \notin corrupt
    /\ corrupt \cap uploaded = {}

\* C25: both level functions return, for every input, a value from 0 to 100
\* without raising, and 0 for an input with no sample, with a byte left over,
\* or (as a file) not readable or not of 16-bit frames.
C25_LevelTotalAndBounded ==
    level_output.fn # "none" =>
        /\ ~level_output.out.raised
        /\ level_output.out.value \in 0..100
        /\ (\/ level_input.samples = <<>>
            \/ level_input.odd
            \/ (level_output.fn = "file"
                /\ (~level_input.readable \/ level_input.sampwidth # 2)))
              => level_output.out.value = 0

\* C26: the step that follows a True of upload_audio creates the marker of
\* the clip, adds one to clips_uploaded and calls on_upload_complete for the
\* clip; clips_uploaded never decreases and is the number of clips marked.
C26_CounterMatchesMarked ==
    /\ [][(loopPc = "mark" /\ loopPc' # "mark") =>
            /\ wav_file[1] \in uploaded'
            /\ clips_uploaded' = clips_uploaded + 1
            /\ wav_file[1] \in notified']_vars
    /\ [][clips_uploaded' >= clips_uploaded]_vars
    /\ [](clips_uploaded = Cardinality(marked))

\* C27: when a thread was left behind by a stop(), that thread or the one
\* started since has ended, and the two never have an upload of the same clip
\* in flight.
C27_OneLoopThread ==
    stale # <<>> =>
        /\ stale[1].pc = "exit" \/ loopPc \in {"none", "exit"}
        /\ ~(loopPc = "post" /\ stale[1].pc = "post"
             /\ stale[1].file = wav_file)

\* C28: after stop() has ended a session with a 200 (the client holds none,
\* the collector has ended one) and until the process ends, the session id
\* stays None and no upload is begun with the empty session field.
C28_NoSessionAfterStop ==
    /\ [][(mainPc \in {"join", "stopped"} /\ session_id = None
           /\ ended # {}) => session_id' = None]_vars
    /\ [][(mainPc \in {"join", "stopped"} /\ session_id = None
           /\ ended # {} /\ loopPc = "upload" /\ loopPc' = "post") =>
            form_session' # <<>>]_vars

====
